---------------------------- MODULE Spec2Model ----------------------------
(***************************************************************************)
(* Model of the chunking service of fastapi-mlactions:                     *)
(*   src/services/chunking.py      tokenizer state, SmartChunker           *)
(*   src/services/html_stripper.py clean_text_advanced                     *)
(*   src/routers/chunking.py       _chunk_text and its error mapping       *)
(*                                                                         *)
(* A text is a sequence of symbols.  "a" is a piece of a word that the     *)
(* encoding maps to one token, "." a sentence-final punctuation mark,      *)
(* " " a blank, "N" a character outside string.printable that is not       *)
(* white space (such as a CJK character), "<b>" an HTML tag.               *)
(***************************************************************************)
EXTENDS Integers, Sequences, FiniteSets, TLC

\* ------------------------------------------------------------------ bounds

\* longest raw text of a request, in symbols
MaxLen == 5
\* longest raw text of a request that has non-printable characters
MaxDirtyLen == 3
\* chunk_token_limit ranges over 0..MaxLimit and BigLimit
MaxLimit == 3
\* a limit large enough for the 10% buffer of split() to be at least one token
BigLimit == 10
\* overlap_tokens ranges over 0..MaxOverlap
MaxOverlap == 2
\* the requests followed to their answer: the longest text, the largest
\* limit and the largest overlap
LiveLen == 2
LiveLimit == 2
LiveOverlap == 2
\* the most pieces re.split cuts a summary into
MaxSentences == 4
\* two calls of split() at once: the longest text, the largest limit and
\* the largest overlap
PairLen == 2
PairLimit == 1
PairOverlap == 1
\* the longest text, in symbols, handed to clean_text_advanced on its own
MaxHtmlLen == 3
\* threads calling initialize_chunking_service / num_tokens concurrently
NumInit == 2
NumCallers == 2

\* ------------------------------------------------------- python primitives

Letter == "a"
Period == "."
Blank  == " "
NonPrintable == "N"
Tag == "<b>"
EscapedTag == "&lt;b&gt;"
DoubleEscapedTag == "&amp;lt;b&amp;gt;"

Min(S) == CHOOSE x \in S : \A y \in S : x <= y
Max(S) == CHOOSE x \in S : \A y \in S : x >= y

\* str.strip(): leading and trailing white space removed
Strip(t) ==
  LET idx == {i \in 1..Len(t) : t[i] # Blank}
  IN  IF idx = {} THEN <<>> ELSE SubSeq(t, Min(idx), Max(idx))

\* sep.join(list) with sep = " "
RECURSIVE Join(_)
Join(list) ==
  IF list = <<>> THEN <<>>
  ELSE IF Len(list) = 1 THEN list[1]
  ELSE list[1] \o <<Blank>> \o Join(Tail(list))

\* seq[-n:] of Python: -0 is 0, so seq[-0:] is the whole sequence; a start
\* before the beginning is clamped to the beginning
LastSlice(seq, n) ==
  LET start == IF n > 0 THEN (IF Len(seq) - n < 0 THEN 0 ELSE Len(seq) - n)
               ELSE (IF -n > Len(seq) THEN Len(seq) ELSE -n)
  IN  SubSeq(seq, start + 1, Len(seq))

\* int(x * 0.1): truncation towards zero
TenPercent(x) == IF x >= 0 THEN x \div 10 ELSE -((-x) \div 10)

RECURSIVE Concat(_)
Concat(ss) == IF ss = <<>> THEN <<>> ELSE ss[1] \o Concat(Tail(ss))

SelectNonEmpty(ss) == SelectSeq(ss, LAMBDA s : s # <<>>)

\* ------------------------------------------------------------ normalization

\* html.unescape: one level of entity escaping is removed
HtmlUnescape(t) ==
  [i \in 1..Len(t) |->
     IF t[i] = DoubleEscapedTag THEN EscapedTag
     ELSE IF t[i] = EscapedTag THEN Tag
     ELSE t[i]]

\* MLStripper: tags are dropped, data is kept; HTMLParser(convert_charrefs=True)
\* hands handle_data the data with its character references unescaped
StripTags(t) ==
  HtmlUnescape(SelectSeq(t, LAMBDA c : c # Tag))

\* ''.join(char for char in text if char in string.printable)
OnlyPrintable(t) == SelectSeq(t, LAMBDA c : c # NonPrintable)

\* re.sub(r'\s+', ' ', text)
RECURSIVE CollapseBlanks(_)
CollapseBlanks(t) ==
  IF Len(t) <= 1 THEN t
  ELSE IF t[1] = Blank /\ t[2] = Blank THEN CollapseBlanks(Tail(t))
  ELSE <<t[1]>> \o CollapseBlanks(Tail(t))

clean_text_advanced(t) ==
  IF t = <<>> THEN t
  ELSE Strip(CollapseBlanks(OnlyPrintable(StripTags(HtmlUnescape(t)))))

\* ---------------------------------------------------------------- tokenizer

\* encoding.encode: a blank is merged into the piece that follows it, every
\* other symbol is a token of its own
RECURSIVE Encode(_)
Encode(t) ==
  IF t = <<>> THEN <<>>
  ELSE IF Len(t) >= 2 /\ t[1] = Blank /\ t[2] # Blank
       THEN <<SubSeq(t, 1, 2)>> \o Encode(SubSeq(t, 3, Len(t)))
       ELSE <<SubSeq(t, 1, 1)>> \o Encode(Tail(t))

\* encoding.decode: the pieces concatenated
Decode(toks) == Concat(toks)

\* len(encoding.encode(text)) of num_tokens, past its initialization check
TokenCount(t) == Len(Encode(t))

\* --------------------------------------------------------------- segmenters

\* the end of the run of periods that starts at i
RECURSIVE RunEnd(_, _)
RunEnd(t, i) ==
  IF i < Len(t) /\ t[i + 1] = Period THEN RunEnd(t, i + 1) ELSE i

\* the end of the run of blanks that starts at i
RECURSIVE BlanksEnd(_, _)
BlanksEnd(t, i) ==
  IF i < Len(t) /\ t[i + 1] = Blank THEN BlanksEnd(t, i + 1) ELSE i

\* a sentence boundary: a run of periods followed by white space
BoundaryAt(t, i) ==
  /\ t[i] = Period
  /\ RunEnd(t, i) < Len(t)
  /\ t[RunEnd(t, i) + 1] = Blank

\* the pieces of t between its sentence boundaries; keep says whether the
\* punctuation stays with the piece before it
RECURSIVE BoundarySplit(_, _, _, _)
BoundarySplit(t, i, cur, keep) ==
  IF i > Len(t) THEN <<cur>>
  ELSE IF BoundaryAt(t, i)
       THEN LET j == RunEnd(t, i)
                k == BlanksEnd(t, j + 1)
            IN  <<cur \o (IF keep THEN SubSeq(t, i, j) ELSE <<>>)>>
                  \o BoundarySplit(t, k + 1, <<>>, keep)
       ELSE BoundarySplit(t, i + 1, cur \o <<t[i]>>, keep)

StripAll(ss) == [i \in 1..Len(ss) |-> Strip(ss[i])]

\* nltk.sent_tokenize: sentences end after their final punctuation
sent_tokenize(t) == SelectNonEmpty(StripAll(BoundarySplit(t, 1, <<>>, TRUE)))

\* re.split(r'[.!?]+\s+', text), then [s.strip() for s in sentences if s.strip()]
simple_sentence_split(t) ==
  SelectNonEmpty(StripAll(BoundarySplit(t, 1, <<>>, FALSE)))

\* str.split(): the maximal runs without white space
RECURSIVE WhitespaceSplit(_, _)
WhitespaceSplit(t, cur) ==
  IF t = <<>> THEN SelectNonEmpty(<<cur>>)
  ELSE IF t[1] = Blank
       THEN SelectNonEmpty(<<cur>>) \o WhitespaceSplit(Tail(t), <<>>)
       ELSE WhitespaceSplit(Tail(t), cur \o <<t[1]>>)

\* nltk.word_tokenize: white space separates words and punctuation stands apart
\* from the word it is attached to
RECURSIVE PunctSplit(_, _)
PunctSplit(w, cur) ==
  IF w = <<>> THEN SelectNonEmpty(<<cur>>)
  ELSE IF cur # <<>> /\ (cur[1] = Period) # (w[1] = Period)
       THEN <<cur>> \o PunctSplit(Tail(w), <<w[1]>>)
       ELSE PunctSplit(Tail(w), cur \o <<w[1]>>)

RECURSIVE PunctSplitAll(_)
PunctSplitAll(ws) ==
  IF ws = <<>> THEN <<>> ELSE PunctSplit(ws[1], <<>>) \o PunctSplitAll(Tail(ws))

word_tokenize(t) == PunctSplitAll(WhitespaceSplit(t, <<>>))

\* lines 218-222 of _split_long_sentence: word_tokenize, or sentence.split()
\* when it raises
SentenceWords(sentence, nltk) ==
  IF nltk THEN word_tokenize(sentence) ELSE WhitespaceSplit(sentence, <<>>)

\* a slip: the group is tested before the word is added, not with it
RECURSIVE WordGroupsLate(_, _, _)
WordGroupsLate(words, current_words, limit) ==
  IF words = <<>>
  THEN IF current_words # <<>> THEN <<Join(current_words)>> ELSE <<>>
  ELSE IF TokenCount(Join(current_words)) > limit /\ current_words # <<>>
       THEN <<Join(current_words)>> \o WordGroupsLate(Tail(words), <<words[1]>>, limit)
       ELSE WordGroupsLate(Tail(words), current_words \o <<words[1]>>, limit)

\* a slip: the new group starts with the last word of the group just closed
RECURSIVE WordGroupsOverlapping(_, _, _)
WordGroupsOverlapping(words, current_words, limit) ==
  IF words = <<>>
  THEN IF current_words # <<>> THEN <<Join(current_words)>> ELSE <<>>
  ELSE LET word == words[1]
           test_text == Join(current_words \o <<word>>)
       IN  IF TokenCount(test_text) > limit /\ current_words # <<>>
           THEN <<Join(current_words)>>
                \o WordGroupsOverlapping(Tail(words),
                                          <<current_words[Len(current_words)], word>>,
                                          limit)
           ELSE WordGroupsOverlapping(Tail(words), current_words \o <<word>>, limit)

\* a slip: a word is still added when the group with it is one token over
RECURSIVE WordGroupsLoose(_, _, _)
WordGroupsLoose(words, current_words, limit) ==
  IF words = <<>>
  THEN IF current_words # <<>> THEN <<Join(current_words)>> ELSE <<>>
  ELSE LET word == words[1]
           test_text == Join(current_words \o <<word>>)
       IN  IF TokenCount(test_text) > limit + 1 /\ current_words # <<>>
           THEN <<Join(current_words)>> \o WordGroupsLoose(Tail(words), <<word>>, limit)
           ELSE WordGroupsLoose(Tail(words), current_words \o <<word>>, limit)

\* the loop of _split_long_sentence over the words still to be read
RECURSIVE WordGroups(_, _, _)
WordGroups(words, current_words, limit) ==
  IF words = <<>>
  THEN IF current_words # <<>> THEN <<Join(current_words)>> ELSE <<>>
  ELSE LET word == words[1]
           test_text == Join(current_words \o <<word>>)
       IN  IF TokenCount(test_text) > limit /\ current_words # <<>>
           THEN <<Join(current_words)>> \o WordGroups(Tail(words), <<word>>, limit)
           ELSE WordGroups(Tail(words), current_words \o <<word>>, limit)

\* a slip: a sentence that cannot be split gives no fragment at all
split_long_sentence_dropping(sentence, limit, nltk) ==
  LET words == SentenceWords(sentence, nltk)
  IN  IF Len(words) <= 1 THEN <<>>
      ELSE LET word_chunks == WordGroups(words, <<>>, limit)
           IN  IF word_chunks # <<>> THEN word_chunks ELSE <<sentence>>

\* _split_long_sentence, lines 215-248
split_long_sentence(sentence, limit, nltk) ==
  CHOOSE r \in
    {IF Len(words) <= 1 THEN <<sentence>>
     ELSE LET word_chunks == WordGroups(words, <<>>, limit)
          IN  IF word_chunks # <<>> THEN word_chunks ELSE <<sentence>> :
       words \in {SentenceWords(sentence, nltk)}} : TRUE

\* chunk_limit + int(chunk_limit * 0.1)
chunk_limit_with_buffer(limit) == limit + TenPercent(limit)

\* a slip: tokens[:self.overlap], the first tokens instead of the last
OverlapTextHead(flat_chunk, overlap) ==
  Decode(SubSeq(Encode(flat_chunk), 1,
                IF overlap < Len(Encode(flat_chunk)) THEN overlap
                ELSE Len(Encode(flat_chunk))))

\* lines 259-265 of _add_to_chunks: the text of the last `overlap` tokens of
\* the chunk just saved
OverlapText(flat_chunk, overlap) == Decode(LastSlice(Encode(flat_chunk), overlap))

\* -------------------------------------------------------------- merge step

\* a slip: >= in place of > at line 255
MergeOverflowsAtLimit(sentence, current_chunk, limit) ==
  TokenCount(Join(current_chunk \o <<sentence>>)) >= limit

\* lines 252-255 of _add_to_chunks: does current_chunk + [sentence] overflow
MergeOverflows(sentence, current_chunk, limit) ==
  TokenCount(Join(current_chunk \o <<sentence>>)) > limit

\* lines 259-269: overlap_text.strip(), the first element of the next chunk
OverlapSeed(current_chunk, overlap) ==
  Strip(OverlapText(Join(current_chunk), overlap))

\* a slip: the overflow branch without its current_chunk.append(sentence)
add_to_chunks_dropping(sentence, cs, cur, limit, overlap) ==
  IF MergeOverflows(sentence, cur, limit)
  THEN [chunks |-> Append(cs, Join(cur)),
        current_chunk |-> <<OverlapSeed(cur, overlap)>>]
  ELSE [chunks |-> cs, current_chunk |-> Append(cur, sentence)]

\* a slip: the branch without overflow saves current_chunk as well
add_to_chunks_flushing(sentence, cs, cur, limit, overlap) ==
  IF MergeOverflows(sentence, cur, limit)
  THEN [chunks |-> Append(cs, Join(cur)),
        current_chunk |-> <<OverlapSeed(cur, overlap), sentence>>]
  ELSE [chunks |-> IF cur # <<>> THEN Append(cs, Join(cur)) ELSE cs,
        current_chunk |-> <<sentence>>]

\* _add_to_chunks: the lists chunks and current_chunk after the call
add_to_chunks(sentence, cs, cur, limit, overlap) ==
  IF MergeOverflows(sentence, cur, limit)
  THEN [chunks |-> Append(cs, Join(cur)),
        current_chunk |-> <<OverlapSeed(cur, overlap), sentence>>]
  ELSE [chunks |-> cs, current_chunk |-> Append(cur, sentence)]

\* ------------------------------------------------------------------- state

VARIABLES
  \* module globals of services/chunking.py
  encoding, is_initialized,
  \* whether nltk's punkt data is usable in this process
  nltk_ok,
  \* the ChunkRequest
  text, chunk_token_limit, overlap_tokens,
  \* where _chunk_text is
  pc,
  \* the SmartChunker of the call
  chunker,
  \* locals of split(): the sentences, the index of the next one, the
  \* fragments of the oversized sentence being read and the index of the next
  sentences, si, subchunks, sj,
  \* the accumulators of split()
  chunks, current_chunk,
  \* history: how each chunk of chunks was appended and from which list, and
  \* whether current_chunk starts with an overlap seed
  chunk_log, seeded,
  \* the ChunkResponse
  response,
  \* history: the exception a num_tokens call of the request raised, and
  \* whether split() had saved a chunk by then
  token_error,
  \* threads in initialize_chunking_service: where each is, and how often the
  \* body (lines 81-96) was entered
  ipc, body_runs,
  \* threads calling num_tokens or SmartChunker(): where each is, the value of
  \* is_initialized it read, and what the call gave
  cpc, seen, result,
  \* history: the threads whose get_encoding call (line 93) raised
  failed,
  \* a text handed to clean_text_advanced, what the call returned, what a
  \* second call on that returned, and how many calls were made
  clean_input, clean_once, clean_twice, clean_calls,
  \* two calls of split() at once: the arguments and locals of each call, and
  \* the lists chunks and current_chunk each call works on
  calls, buffers,
  \* the _service of the two lazy proxies, and whether a data operation of the
  \* proxy was ever invoked
  kv_service, es_service, kv_used, es_used,
  \* what the last status read (startup or health endpoint) saw, if any
  logged,
  \* POST /chunk: the document of the index, the request's force_update, where
  \* the handler is, its answer, its calls on the search service, and whether
  \* it chunked the text
  doc, force_update, hpc, hresp, es_calls, rechunked,
  \* POST /summary: the events sent so far, where generate_summary_stream is,
  \* the pieces re.split cut the summary into, and the index of the next one
  events, spc, summary_sentences, sk

reqVars == <<nltk_ok, text, chunk_token_limit, overlap_tokens, pc, chunker,
             sentences, si, subchunks, sj, chunks, current_chunk, chunk_log,
             seeded, response, token_error>>
svcVars == <<encoding, is_initialized>>
thrVars == <<ipc, body_runs, cpc, seen, result, failed>>
normVars == <<clean_input, clean_once, clean_twice, clean_calls>>
pairVars == <<calls, buffers>>
proxyVars == <<kv_service, es_service, kv_used, es_used, logged,
               doc, force_update, hpc, hresp, es_calls, rechunked>>
sseVars == <<events, spc, summary_sentences, sk>>
extVars == <<pairVars, proxyVars, sseVars>>
vars == <<svcVars, reqVars, thrVars, normVars, extVars>>

NoEncoding == "None"
Cl100k == "cl100k_base"

InitProcs == 1..NumInit
CallerProcs == 1..NumCallers

\* ------------------------------------------------------------------ inputs

RawAlphabet == {Letter, Period, Blank, NonPrintable}

RECURSIVE SeqsUpTo(_, _)
SeqsUpTo(S, n) ==
  IF n = 0 THEN {<<>>}
  ELSE LET shorter == SeqsUpTo(S, n - 1)
       IN  shorter \cup {Append(t, c) : t \in {u \in shorter : Len(u) = n - 1}, c \in S}

\* every word piece of t repeated k times
RECURSIVE Repeat(_, _)
Repeat(t, k) ==
  IF t = <<>> THEN <<>>
  ELSE (IF t[1] = Letter THEN [i \in 1..k |-> Letter] ELSE <<t[1]>>) \o Repeat(Tail(t), k)

PrintableAlphabet == {Letter, Period, Blank}

\* the raw texts: printable ones up to MaxLen symbols, and shorter ones with
\* characters that clean_text_advanced removes
Texts ==
  SeqsUpTo(PrintableAlphabet, MaxLen) \cup SeqsUpTo(RawAlphabet, MaxDirtyLen)

\* word pieces are BigLimit \div 2 tokens long in the requests that use BigLimit
Requests ==
  {[text |-> t, limit |-> l] : t \in Texts, l \in 0..MaxLimit}
  \cup {[text |-> Repeat(t, BigLimit \div 2), limit |-> BigLimit] : t \in Texts}

NoChunker == [made |-> FALSE, chunk_limit |-> 0, overlap |-> 0]
NoTokenError == [raised |-> "none", chunk_saved |-> FALSE]
NoResponse == [status |-> "none", chunks |-> <<>>, total_chunks |-> 0, total_tokens |-> 0]

ReqInit ==
  /\ \E r \in Requests : text = r.text /\ chunk_token_limit = r.limit
  /\ overlap_tokens \in 0..MaxOverlap
  /\ nltk_ok \in BOOLEAN
  /\ pc = "request"
  /\ chunker = NoChunker
  /\ sentences = <<>> /\ si = 0 /\ subchunks = <<>> /\ sj = 0
  /\ chunks = <<>> /\ current_chunk = <<>>
  /\ chunk_log = <<>> /\ seeded = FALSE
  /\ response = NoResponse
  /\ token_error = NoTokenError

ThreadsIdle ==
  /\ ipc = [p \in InitProcs |-> "idle"]
  /\ cpc = [p \in CallerProcs |-> "idle"]
  /\ seen = [p \in CallerProcs |-> FALSE]
  /\ result = [p \in CallerProcs |-> "none"]
  /\ body_runs = 0
  /\ failed = {}

\* clean_text_advanced has not been called
NormIdle ==
  /\ clean_input = <<>> /\ clean_once = <<>> /\ clean_twice = <<>>
  /\ clean_calls = 0

\* no second call of split() is running beside the request
PairIdle == calls = <<>> /\ buffers = <<>>

NoApiResponse ==
  [http |-> 0, status |-> "none", message |-> "none",
   elasticsearch_indexed |-> FALSE, action_performed |-> "none"]

NoDocument == [exists |-> FALSE, input |-> "none", chunks |-> FALSE]

\* services/elasticsearch.py:237 and services/azure_keyvault.py:152: the
\* proxies as the modules are imported, and no POST /chunk in progress
ProxyIdle ==
  /\ kv_service = "None" /\ es_service = "None"
  /\ kv_used = FALSE /\ es_used = FALSE
  /\ logged = {}
  /\ doc = NoDocument /\ force_update = FALSE
  /\ hpc = "idle" /\ hresp = NoApiResponse
  /\ es_calls = <<>> /\ rechunked = FALSE

\* no POST /summary is being answered
StreamIdle ==
  /\ events = <<>> /\ spc = "idle" /\ summary_sentences = <<>> /\ sk = 0

ExtIdle == PairIdle /\ ProxyIdle /\ StreamIdle

\* a request arrives in a process whose startup did or did not initialize the
\* chunking service
Init ==
  /\ ReqInit
  /\ ThreadsIdle
  /\ NormIdle
  /\ ExtIdle
  /\ \/ is_initialized = TRUE /\ encoding = Cl100k
     \/ is_initialized = FALSE /\ encoding = NoEncoding

\* ------------------------------------------------------------- _chunk_text

\* a slip: only `not request.text` is tested
ValidTextNoStrip(t) == t # <<>>

\* line 27: not (not request.text or not request.text.strip())
ValidText(t) == t # <<>> /\ Strip(t) # <<>>

\* a slip: a request with overlap_tokens >= chunk_token_limit is rejected
ValidateRejectingOverlap ==
  /\ pc = "request"
  /\ pc' = IF ValidText(text) /\ overlap_tokens < chunk_token_limit
           THEN "validated" ELSE "http400"
  /\ UNCHANGED <<svcVars, thrVars, normVars, extVars, token_error, nltk_ok, text, chunk_token_limit, overlap_tokens,
                 chunker, sentences, si, subchunks, sj, chunks, current_chunk,
                 chunk_log, seeded, response>>

\* lines 27-28, and the ValueError handler of chunk_content (lines 182-184)
Validate ==
  /\ pc = "request"
  /\ pc' = IF ValidText(text) THEN "validated" ELSE "http400"
  /\ UNCHANGED <<svcVars, thrVars, normVars, extVars, token_error, nltk_ok, text, chunk_token_limit, overlap_tokens,
                 chunker, sentences, si, subchunks, sj, chunks, current_chunk,
                 chunk_log, seeded, response>>

\* SmartChunker.__init__ (lines 109-115); its RuntimeError reaches the
\* Exception handler of chunk_content (lines 185-187)
Construct ==
  /\ pc = "validated"
  /\ IF is_initialized
     THEN /\ chunker' = [made |-> TRUE, chunk_limit |-> chunk_token_limit,
                         overlap |-> overlap_tokens]
          /\ pc' = "constructed"
     ELSE /\ pc' = "http500"
          /\ UNCHANGED chunker
  /\ UNCHANGED <<svcVars, thrVars, normVars, extVars, token_error, nltk_ok, text, chunk_token_limit, overlap_tokens,
                 sentences, si, subchunks, sj, chunks, current_chunk,
                 chunk_log, seeded, response>>

\* a slip: `except: sentences = []` in place of the fallback of lines 126-128
SegmentNoFallback(t, nltk) ==
  IF nltk THEN sent_tokenize(clean_text_advanced(t)) ELSE <<>>

\* split(), lines 121-130: the text cleaned and cut into sentences
Segment(t, nltk) ==
  CHOOSE ss \in {IF nltk THEN sent_tokenize(c) ELSE simple_sentence_split(c) :
                   c \in {clean_text_advanced(t)}} : TRUE

SplitBegin ==
  /\ pc = "constructed"
  /\ sentences' = Segment(text, nltk_ok)
  /\ si' = 1
  /\ pc' = "loop"
  /\ UNCHANGED <<svcVars, thrVars, normVars, extVars, token_error, nltk_ok, text, chunk_token_limit, overlap_tokens,
                 chunker, subchunks, sj, chunks, current_chunk, chunk_log, seeded,
                 response>>

\* the history of a call of _add_to_chunks
LogMerge(sentence) ==
  IF MergeOverflows(sentence, current_chunk, chunker.chunk_limit)
  THEN /\ chunk_log' = Append(chunk_log, [how |-> "merge", parts |-> current_chunk,
                                          seeded |-> seeded])
       /\ seeded' = TRUE
  ELSE UNCHANGED <<chunk_log, seeded>>

Merge(sentence) ==
  LET r == add_to_chunks(sentence, chunks, current_chunk, chunker.chunk_limit,
                         chunker.overlap)
  IN  /\ chunks' = r.chunks
      /\ current_chunk' = r.current_chunk
      /\ LogMerge(sentence)

\* a slip: the sentence compared with chunk_limit itself, the buffer left out
IsLongSentenceNoBuffer(sentence, limit) == TokenCount(sentence) > limit

\* a slip: >= in place of > at line 141
IsLongSentenceAtThreshold(sentence, limit) ==
  TokenCount(sentence) >= chunk_limit_with_buffer(limit)

\* line 141
IsLongSentence(sentence, limit) ==
  TokenCount(sentence) > chunk_limit_with_buffer(limit)

\* one turn of the loop over the sentences (lines 132-164) up to the loop over
\* the fragments of a long sentence
SentenceStep ==
  /\ pc = "loop"
  /\ si <= Len(sentences)
  /\ LET sentence == Strip(sentences[si])
     IN  IF sentence = <<>>
         THEN /\ si' = si + 1
              /\ UNCHANGED <<pc, subchunks, sj, chunks, current_chunk, chunk_log, seeded>>
         ELSE IF IsLongSentence(sentence, chunker.chunk_limit)
         THEN /\ subchunks' = split_long_sentence(sentence, chunker.chunk_limit, nltk_ok)
              /\ sj' = 1
              /\ pc' = "sub"
              /\ UNCHANGED <<si, chunks, current_chunk, chunk_log, seeded>>
         ELSE /\ Merge(sentence)
              /\ si' = si + 1
              /\ UNCHANGED <<pc, subchunks, sj>>
  /\ UNCHANGED <<svcVars, thrVars, normVars, extVars, token_error, nltk_ok, text, chunk_token_limit, overlap_tokens,
                 chunker, sentences, response>>

\* a slip: the fragment joined to current_chunk and saved with it
EmitStandaloneJoined(sub) ==
  /\ chunks' = Append(chunks, Join(current_chunk \o <<Strip(sub)>>))
  /\ current_chunk' = <<>>
  /\ chunk_log' = Append(chunk_log, [how |-> "standalone",
                                     parts |-> current_chunk \o <<Strip(sub)>>,
                                     seeded |-> seeded])
  /\ seeded' = FALSE

\* lines 156-161: the fragment as a chunk of its own, after current_chunk
EmitStandalone(sub) ==
  /\ chunks' = (IF current_chunk # <<>> THEN Append(chunks, Join(current_chunk))
                ELSE chunks) \o <<Strip(sub)>>
  /\ current_chunk' = <<>>
  /\ chunk_log' = (IF current_chunk # <<>>
                   THEN Append(chunk_log, [how |-> "before_standalone",
                                           parts |-> current_chunk, seeded |-> seeded])
                   ELSE chunk_log)
                  \o <<[how |-> "standalone", parts |-> <<Strip(sub)>>, seeded |-> FALSE]>>
  /\ seeded' = FALSE

\* one turn of the loop over the fragments (lines 145-161)
FragmentStep ==
  /\ pc = "sub"
  /\ sj <= Len(subchunks)
  /\ LET sub == subchunks[sj]
     IN  IF Strip(sub) = <<>>
         THEN UNCHANGED <<chunks, current_chunk, chunk_log, seeded>>
         ELSE IF TokenCount(sub) <= chunker.chunk_limit
         THEN Merge(Strip(sub))
         ELSE EmitStandalone(sub)
  /\ IF sj = Len(subchunks)
     THEN /\ pc' = "loop" /\ si' = si + 1 /\ sj' = 0 /\ subchunks' = <<>>
     ELSE /\ sj' = sj + 1 /\ UNCHANGED <<pc, si, subchunks>>
  /\ UNCHANGED <<svcVars, thrVars, normVars, extVars, token_error, nltk_ok, text, chunk_token_limit, overlap_tokens,
                 chunker, sentences, response>>

\* lines 166-171: the rest of current_chunk, and the return
SplitEnd ==
  /\ pc = "loop"
  /\ si > Len(sentences)
  /\ IF current_chunk # <<>>
     THEN /\ chunks' = Append(chunks, Join(current_chunk))
          /\ chunk_log' = Append(chunk_log, [how |-> "final", parts |-> current_chunk,
                                             seeded |-> seeded])
     ELSE UNCHANGED <<chunks, chunk_log>>
  /\ pc' = "returned"
  /\ UNCHANGED <<svcVars, thrVars, normVars, extVars, token_error, nltk_ok, text, chunk_token_limit, overlap_tokens,
                 chunker, sentences, si, subchunks, sj, current_chunk, seeded, response>>

RECURSIVE SumTokens(_)
SumTokens(cs) == IF cs = <<>> THEN 0 ELSE TokenCount(cs[1]) + SumTokens(Tail(cs))

\* lines 39-51 of _chunk_text
Respond ==
  /\ pc = "returned"
  /\ response' = [status |-> "success", chunks |-> chunks, total_chunks |-> Len(chunks),
                  total_tokens |-> SumTokens(chunks)]
  /\ pc' = "responded"
  /\ UNCHANGED <<svcVars, thrVars, normVars, extVars, token_error, nltk_ok, text, chunk_token_limit, overlap_tokens,
                 chunker, sentences, si, subchunks, sj, chunks, current_chunk,
                 chunk_log, seeded>>

\* the places where num_tokens is called: line 137 for a sentence, lines 146,
\* 150, 233 and 254 for a fragment, line 41 of _chunk_text for the chunks
CountsTokens ==
  \/ pc = "loop" /\ si <= Len(sentences) /\ Strip(sentences[si]) # <<>>
  \/ pc = "sub" /\ sj <= Len(subchunks) /\ Strip(subchunks[sj]) # <<>>
  \/ pc = "returned" /\ chunks # <<>>

\* a slip: split() catching the exception and returning the chunks it has
AfterTokenErrorPartial(e) == "returned"

\* neither split() nor _chunk_text catches what num_tokens raises: it reaches
\* chunk_content, lines 182-184 for a ValueError and 185-187 for the rest
AfterTokenError(e) == IF e = "ValueError" THEN "http400" ELSE "http500"

\* encoding.encode raises inside num_tokens (line 106); the exception leaves
\* split() and _chunk_text, whose locals are dropped with their frames
TokenCountFails ==
  /\ CountsTokens
  /\ \E e \in {"ValueError", "Exception"} :
       /\ token_error' = [raised |-> e, chunk_saved |-> chunks # <<>>]
       /\ pc' = AfterTokenError(e)
       /\ IF pc' \in {"http400", "http500"}
          THEN /\ chunker' = NoChunker
               /\ sentences' = <<>> /\ si' = 0 /\ subchunks' = <<>> /\ sj' = 0
               /\ chunks' = <<>> /\ current_chunk' = <<>>
               /\ chunk_log' = <<>> /\ seeded' = FALSE
          ELSE UNCHANGED <<chunker, sentences, si, subchunks, sj, chunks, current_chunk,
                           chunk_log, seeded>>
  /\ UNCHANGED <<svcVars, thrVars, normVars, extVars, nltk_ok, text, chunk_token_limit, overlap_tokens,
                 response>>

Next ==
  \/ Validate
  \/ Construct
  \/ SplitBegin
  \/ SentenceStep
  \/ FragmentStep
  \/ SplitEnd
  \/ Respond
  \/ TokenCountFails

Spec == Init /\ [][Next]_vars

\* a request of a short text, with an overlap below, at or above its limit
InitLive ==
  /\ ThreadsIdle /\ NormIdle /\ ExtIdle
  /\ \/ is_initialized = TRUE /\ encoding = Cl100k
     \/ is_initialized = FALSE /\ encoding = NoEncoding
  /\ text \in SeqsUpTo(PrintableAlphabet, LiveLen)
  /\ chunk_token_limit \in 1..LiveLimit
  /\ overlap_tokens \in 0..LiveOverlap
  /\ nltk_ok \in BOOLEAN
  /\ pc = "request"
  /\ chunker = NoChunker
  /\ sentences = <<>> /\ si = 0 /\ subchunks = <<>> /\ sj = 0
  /\ chunks = <<>> /\ current_chunk = <<>>
  /\ chunk_log = <<>> /\ seeded = FALSE
  /\ response = NoResponse
  /\ token_error = NoTokenError

\* the request runs in one thread from line 14 of _chunk_text to its return or
\* to the exception handler: a step that can be taken is taken
SpecLive == InitLive /\ [][Next]_vars /\ WF_vars(Next)

\* ------------------------------------------- initialization and its callers

\* no request is being served
ReqIdle ==
  /\ text = <<>> /\ chunk_token_limit = 0 /\ overlap_tokens = 0
  /\ pc = "request"
  /\ chunker = NoChunker
  /\ sentences = <<>> /\ si = 0 /\ subchunks = <<>> /\ sj = 0
  /\ chunks = <<>> /\ current_chunk = <<>>
  /\ chunk_log = <<>> /\ seeded = FALSE
  /\ response = NoResponse
  /\ token_error = NoTokenError

\* the process as the module is imported (lines 10-11), with threads about to
\* call into it
InitThreads ==
  /\ ReqIdle
  /\ NormIdle
  /\ ExtIdle
  /\ nltk_ok \in BOOLEAN
  /\ ThreadsIdle
  /\ is_initialized = FALSE
  /\ encoding = NoEncoding

\* line 77: the flag is read; lines 78-79 return, line 81 enters the body
InitCheck(p) ==
  /\ ipc[p] = "idle"
  /\ IF is_initialized
     THEN /\ ipc' = [ipc EXCEPT ![p] = "returned"]
          /\ UNCHANGED body_runs
     ELSE /\ ipc' = [ipc EXCEPT ![p] = "nltk"]
          /\ body_runs' = body_runs + 1
  /\ UNCHANGED <<svcVars, reqVars, normVars, extVars, cpc, seen, result, failed>>

\* lines 84-89: download_nltk_data(); its failure is logged and dropped
InitNltk(p) ==
  /\ ipc[p] = "nltk"
  /\ ipc' = [ipc EXCEPT ![p] = "encoding"]
  /\ UNCHANGED <<svcVars, reqVars, normVars, extVars, body_runs, cpc, seen, result, failed>>

\* a slip: the except clause of lines 98-100 without its `raise`
AfterGetEncodingSwallowed(ok) == "flag"

\* where the thread goes after line 93: on to line 95, or through the except
\* clause of lines 98-100, which logs and raises again
AfterGetEncoding(ok) == IF ok THEN "flag" ELSE "raised"

\* a slip: the except clause of lines 98-100 also sets encoding = None
InitEncodingResetting(p) ==
  /\ ipc[p] = "encoding"
  /\ \E ok \in BOOLEAN :
       /\ encoding' = IF ok THEN Cl100k ELSE NoEncoding
       /\ ipc' = [ipc EXCEPT ![p] = AfterGetEncoding(ok)]
       /\ failed' = IF ok THEN failed ELSE failed \cup {p}
  /\ UNCHANGED <<is_initialized, reqVars, normVars, extVars, body_runs, cpc, seen, result>>

\* line 93: encoding = get_encoding("cl100k_base"), or lines 98-100 when it raises
InitEncoding(p) ==
  /\ ipc[p] = "encoding"
  /\ \E ok \in BOOLEAN :
       /\ encoding' = IF ok THEN Cl100k ELSE encoding
       /\ ipc' = [ipc EXCEPT ![p] = AfterGetEncoding(ok)]
       /\ failed' = IF ok THEN failed ELSE failed \cup {p}
  /\ UNCHANGED <<is_initialized, reqVars, normVars, extVars, body_runs, cpc, seen, result>>

\* line 95
InitFlag(p) ==
  /\ ipc[p] = "flag"
  /\ is_initialized' = TRUE
  /\ ipc' = [ipc EXCEPT ![p] = "returned"]
  /\ UNCHANGED <<encoding, reqVars, normVars, extVars, body_runs, cpc, seen, result, failed>>

\* a slip: the check of is_initialized left out
InitializedCheckSilent(initialized, pass) == pass

\* lines 104-105 and 110-111: what the check of is_initialized gives
InitializedCheck(initialized, pass) ==
  IF ~initialized THEN "RuntimeError" ELSE pass

\* num_tokens, lines 104-105
NumTokensCheck(q) ==
  /\ cpc[q] = "idle"
  /\ seen' = [seen EXCEPT ![q] = is_initialized]
  /\ LET r == InitializedCheck(is_initialized, "none")
     IN  /\ result' = [result EXCEPT ![q] = r]
         /\ cpc' = [cpc EXCEPT ![q] = IF r = "none" THEN "encode" ELSE "done"]
  /\ UNCHANGED <<svcVars, reqVars, normVars, extVars, ipc, body_runs, failed>>

\* num_tokens, line 106: len(encoding.encode(text))
NumTokensEncode(q) ==
  /\ cpc[q] = "encode"
  /\ result' = [result EXCEPT ![q] = IF encoding = NoEncoding THEN "AttributeError"
                                     ELSE "token_count"]
  /\ cpc' = [cpc EXCEPT ![q] = "done"]
  /\ UNCHANGED <<svcVars, reqVars, normVars, extVars, ipc, body_runs, seen, failed>>

\* SmartChunker.__init__, lines 110-115
NewSmartChunker(q) ==
  /\ cpc[q] = "idle"
  /\ seen' = [seen EXCEPT ![q] = is_initialized]
  /\ result' = [result EXCEPT ![q] = InitializedCheck(is_initialized, "chunker")]
  /\ cpc' = [cpc EXCEPT ![q] = "done"]
  /\ UNCHANGED <<svcVars, reqVars, normVars, extVars, ipc, body_runs, failed>>

NextThreads ==
  \/ \E p \in InitProcs : InitCheck(p)
  \/ \E p \in InitProcs : InitNltk(p)
  \/ \E p \in InitProcs : InitEncoding(p)
  \/ \E p \in InitProcs : InitFlag(p)
  \/ \E q \in CallerProcs : NumTokensCheck(q)
  \/ \E q \in CallerProcs : NumTokensEncode(q)
  \/ \E q \in CallerProcs : NewSmartChunker(q)

SpecThreads == InitThreads /\ [][NextThreads]_vars

\* ------------------------------------------------- normalization, repeated

HtmlAlphabet == {Letter, Blank, NonPrintable, Tag, EscapedTag, DoubleEscapedTag}

\* a text with markup and entities is about to be cleaned
InitClean ==
  /\ ReqIdle
  /\ ThreadsIdle
  /\ ExtIdle
  /\ nltk_ok = TRUE
  /\ is_initialized = FALSE /\ encoding = NoEncoding
  /\ clean_input \in SeqsUpTo(HtmlAlphabet, MaxHtmlLen)
  /\ clean_once = <<>> /\ clean_twice = <<>>
  /\ clean_calls = 0

\* clean_text_advanced(text)
CleanOnce ==
  /\ clean_calls = 0
  /\ clean_once' = clean_text_advanced(clean_input)
  /\ clean_calls' = 1
  /\ UNCHANGED <<svcVars, reqVars, thrVars, extVars, clean_input, clean_twice>>

\* clean_text_advanced on what the first call returned
CleanAgain ==
  /\ clean_calls = 1
  /\ clean_twice' = clean_text_advanced(clean_once)
  /\ clean_calls' = 2
  /\ UNCHANGED <<svcVars, reqVars, thrVars, extVars, clean_input, clean_once>>

NextClean == CleanOnce \/ CleanAgain

SpecClean == InitClean /\ [][NextClean]_vars

\* ------------------------------------------------- two calls of split() at once

Calls == 1..2

\* the texts that pass line 27 of _chunk_text
PairTexts == {t \in SeqsUpTo(PrintableAlphabet, PairLen) : ValidText(t)}

\* a call of SmartChunker(limit, overlap).split(text) that has not started
NewCall(t, limit, overlap) ==
  [text |-> t, chunk_limit |-> limit, overlap |-> overlap, pc |-> "split",
   sentences |-> <<>>, si |-> 0, subchunks |-> <<>>, sj |-> 0, returned |-> <<>>]

\* lines 119-120: chunks = [] and current_chunk = []
NewBuffer == [chunks |-> <<>>, current_chunk |-> <<>>]

\* a slip: chunks and current_chunk kept on the module, one pair for all calls
BufferShared(c) == 1

\* chunks and current_chunk are locals of split() (lines 119-120): every call
\* works on lists of its own
BufferOf(c) == c

\* lines 156-161 on the lists of a call
SaveStandalone(sub, buf) ==
  [chunks |-> (IF buf.current_chunk # <<>>
               THEN Append(buf.chunks, Join(buf.current_chunk)) ELSE buf.chunks)
              \o <<Strip(sub)>>,
   current_chunk |-> <<>>]

\* one step of split() in a call: the call and its lists after the step
SplitStep(call, buf, nltk) ==
  IF call.pc = "split"
  THEN [call |-> [call EXCEPT !.sentences = Segment(call.text, nltk),
                              !.si = 1, !.pc = "loop"],
        buf |-> NewBuffer]
  ELSE IF call.pc = "loop" /\ call.si > Len(call.sentences)
  THEN LET final == IF buf.current_chunk # <<>>
                    THEN Append(buf.chunks, Join(buf.current_chunk))
                    ELSE buf.chunks
       IN  [call |-> [call EXCEPT !.pc = "returned", !.returned = final],
            buf |-> [buf EXCEPT !.chunks = final]]
  ELSE IF call.pc = "loop"
  THEN LET sentence == Strip(call.sentences[call.si])
       IN  IF sentence = <<>>
           THEN [call |-> [call EXCEPT !.si = call.si + 1], buf |-> buf]
           ELSE IF IsLongSentence(sentence, call.chunk_limit)
           THEN [call |-> [call EXCEPT
                             !.subchunks = split_long_sentence(sentence,
                                                               call.chunk_limit, nltk),
                             !.sj = 1, !.pc = "sub"],
                 buf |-> buf]
           ELSE [call |-> [call EXCEPT !.si = call.si + 1],
                 buf |-> add_to_chunks(sentence, buf.chunks, buf.current_chunk,
                                       call.chunk_limit, call.overlap)]
  ELSE IF call.pc = "sub"
  THEN LET sub == call.subchunks[call.sj]
           after == IF Strip(sub) = <<>> THEN buf
                    ELSE IF TokenCount(sub) <= call.chunk_limit
                    THEN add_to_chunks(Strip(sub), buf.chunks, buf.current_chunk,
                                       call.chunk_limit, call.overlap)
                    ELSE SaveStandalone(sub, buf)
       IN  [call |-> IF call.sj = Len(call.subchunks)
                     THEN [call EXCEPT !.pc = "loop", !.si = call.si + 1,
                                       !.sj = 0, !.subchunks = <<>>]
                     ELSE [call EXCEPT !.sj = call.sj + 1],
            buf |-> after]
  ELSE [call |-> call, buf |-> buf]

\* the service is initialized and two requests have passed validation
InitPair ==
  /\ ReqIdle /\ ThreadsIdle /\ NormIdle /\ ProxyIdle /\ StreamIdle
  /\ nltk_ok \in BOOLEAN
  /\ is_initialized = TRUE /\ encoding = Cl100k
  /\ \E o \in 0..PairOverlap :
       calls \in [Calls -> {NewCall(t, l, o) : t \in PairTexts, l \in 1..PairLimit}]
  /\ buffers = [c \in Calls |-> NewBuffer]

\* call c takes its next step
CallStep(c) ==
  /\ calls[c].pc # "returned"
  /\ LET r == SplitStep(calls[c], buffers[BufferOf(c)], nltk_ok)
     IN  /\ calls' = [calls EXCEPT ![c] = r.call]
         /\ buffers' = [buffers EXCEPT ![BufferOf(c)] = r.buf]
  /\ UNCHANGED <<svcVars, reqVars, thrVars, normVars, proxyVars, sseVars>>

NextPair == \E c \in Calls : CallStep(c)

SpecPair == InitPair /\ [][NextPair]_vars

\* ------------------------------------------ lazy proxies and POST /chunk

\* the methods LazyElasticsearchService defines (elasticsearch.py:218-234);
\* the class has no __getattr__
LazyElasticsearchMethods ==
  {"search", "index_document", "delete_document", "create_index", "delete_index",
   "get_cluster_health"}

\* a slip: the property written as self._get_service().is_initialized
ReadIsInitializedConstructing(service) ==
  [value |-> service = "up",
   service |-> IF service = "None" THEN "down" ELSE service]

\* the property is_initialized of a proxy (elasticsearch.py:212-216,
\* azure_keyvault.py:139-143): the value it returns and _service after it
ReadIsInitialized(service) ==
  [value |-> IF service = "None" THEN FALSE ELSE service = "up",
   service |-> service]

\* input_content and content_chunks of the stored document, as Python tests
\* them: the input field missing or empty, blank, or a text; chunks or none
Documents ==
  {NoDocument}
  \cup {[exists |-> TRUE, input |-> i, chunks |-> c] :
          i \in {"none", "blank", "text"}, c \in BOOLEAN}

ApiResponse(status, message, indexed, action) ==
  [http |-> 200, status |-> status, message |-> message,
   elasticsearch_indexed |-> indexed, action_performed |-> action]

HttpError(code, message) ==
  [http |-> code, status |-> "none", message |-> message,
   elasticsearch_indexed |-> FALSE, action_performed |-> "none"]

\* chunk_content from line 113 on, for a search service that reported
\* is_initialized: the answer, the calls made on the search service and
\* whether _chunk_text produced chunks; ok is the result of bulk_update
chunk_content_initialized(d, force, ok) ==
  IF "get_document_by_itemid" \notin LazyElasticsearchMethods
  THEN [resp |-> HttpError(500, "AttributeError"), calls |-> <<>>,
        rechunked |-> FALSE]
  ELSE IF ~d.exists
  THEN [resp |-> ApiResponse("error", "Document not found", FALSE, "none"),
        calls |-> <<"get_document_by_itemid">>, rechunked |-> FALSE]
  ELSE IF ~force /\ d.chunks
  THEN [resp |-> ApiResponse("ignored", "Document already chunked", FALSE, "noop"),
        calls |-> <<"get_document_by_itemid">>, rechunked |-> FALSE]
  ELSE IF force /\ d.input = "none"
  THEN [resp |-> ApiResponse("warning", "No input field found", FALSE, "none"),
        calls |-> <<"get_document_by_itemid">>, rechunked |-> FALSE]
  ELSE LET chunk_input == IF force THEN d.input ELSE "none"
       IN  IF chunk_input # "text"
           THEN [resp |-> HttpError(400, "ValueError"),
                 calls |-> <<"get_document_by_itemid">>, rechunked |-> FALSE]
           ELSE IF "bulk_update" \notin LazyElasticsearchMethods
           THEN [resp |-> HttpError(500, "AttributeError"),
                 calls |-> <<"get_document_by_itemid">>, rechunked |-> TRUE]
           ELSE [resp |-> ApiResponse("success", "Content chunked successfully",
                                      ok, IF ok THEN "updated" ELSE "none"),
                 calls |-> <<"get_document_by_itemid", "bulk_update">>,
                 rechunked |-> TRUE]

\* the process after startup, a document in the index or none, and a POST
\* /chunk about to be handled
InitProxy ==
  /\ ReqIdle /\ ThreadsIdle /\ NormIdle /\ PairIdle /\ StreamIdle
  /\ nltk_ok = TRUE
  /\ is_initialized = TRUE /\ encoding = Cl100k
  /\ kv_service = "None" /\ es_service = "None"
  /\ kv_used = FALSE /\ es_used = FALSE
  /\ logged = {}
  /\ doc \in Documents /\ force_update \in BOOLEAN
  /\ hpc = "idle" /\ hresp = NoApiResponse
  /\ es_calls = <<>> /\ rechunked = FALSE

\* main.py:51-59, 116-117 and 149-150: both proxies are asked is_initialized
ReadStatus ==
  /\ logged' = {[azure_key_vault |-> ReadIsInitialized(kv_service).value,
                 elasticsearch |-> ReadIsInitialized(es_service).value]}
  /\ kv_service' = ReadIsInitialized(kv_service).service
  /\ es_service' = ReadIsInitialized(es_service).service
  /\ UNCHANGED <<svcVars, reqVars, thrVars, normVars, pairVars, sseVars, kv_used, es_used,
                 doc, force_update, hpc, hresp, es_calls, rechunked>>

\* get_secret or get_elasticsearch_config of the Key Vault proxy
\* (azure_keyvault.py:145-149): _get_service constructs the service on the
\* first call, and its connection test passes or fails (lines 46-56)
KeyVaultDataOperation ==
  /\ kv_used' = TRUE
  /\ IF kv_service = "None"
     THEN \E state \in {"up", "down"} : kv_service' = state
     ELSE UNCHANGED kv_service
  /\ UNCHANGED <<svcVars, reqVars, thrVars, normVars, pairVars, sseVars, es_service, es_used,
                 logged, doc, force_update, hpc, hresp, es_calls, rechunked>>

\* a data method of the Elasticsearch proxy (elasticsearch.py:218-234):
\* _get_service constructs ElasticsearchService on the first call, whose
\* _initialize_client gives up when the Key Vault proxy is not initialized
\* (line 23) and otherwise sets is_initialized when the connection test passes
ElasticsearchDataOperation ==
  /\ es_used' = TRUE
  /\ IF es_service = "None"
     THEN IF ReadIsInitialized(kv_service).value
          THEN \E state \in {"up", "down"} : es_service' = state
          ELSE es_service' = "down"
     ELSE UNCHANGED es_service
  /\ UNCHANGED <<svcVars, reqVars, thrVars, normVars, pairVars, sseVars, kv_service, kv_used,
                 logged, doc, force_update, hpc, hresp, es_calls, rechunked>>

\* chunk_content, line 111, and lines 165-171 when the answer is no
ChunkContentCheck ==
  /\ hpc = "idle"
  /\ es_service' = ReadIsInitialized(es_service).service
  /\ IF ReadIsInitialized(es_service).value
     THEN hpc' = "initialized" /\ UNCHANGED hresp
     ELSE /\ hpc' = "done"
          /\ hresp' = ApiResponse("error", "Elasticsearch service not available",
                                  FALSE, "none")
  /\ UNCHANGED <<svcVars, reqVars, thrVars, normVars, pairVars, sseVars, kv_service, kv_used,
                 es_used, logged, doc, force_update, es_calls, rechunked>>

\* chunk_content, lines 113-187
ChunkContentInitialized ==
  /\ hpc = "initialized"
  /\ \E ok \in BOOLEAN :
       LET r == chunk_content_initialized(doc, force_update, ok)
       IN  /\ hresp' = r.resp
           /\ es_calls' = r.calls
           /\ rechunked' = r.rechunked
  /\ hpc' = "done"
  /\ UNCHANGED <<svcVars, reqVars, thrVars, normVars, pairVars, sseVars, kv_service, es_service,
                 kv_used, es_used, logged, doc, force_update>>

NextProxy ==
  \/ ReadStatus
  \/ KeyVaultDataOperation
  \/ ElasticsearchDataOperation
  \/ ChunkContentCheck
  \/ ChunkContentInitialized

SpecProxy == InitProxy /\ [][NextProxy]_vars

\* ------------------------------------------------- POST /summary event stream

\* the pieces of re.split(r'(?<=[.!?])\s+', summary_text): at least one, each
\* with text in it or blank
Summaries ==
  SeqsUpTo({"sentence", "blank"}, MaxSentences) \ {<<>>}

Event(status, is_final) == [status |-> status, is_final |-> is_final]

\* a slip: line 120 without its `return`
AfterNoResultsContinuing == "found"

\* line 120: the generator returns after the error event of line 119
AfterNoResults == "closed"

InitStream ==
  /\ ReqIdle /\ ThreadsIdle /\ NormIdle /\ PairIdle /\ ProxyIdle
  /\ nltk_ok = TRUE
  /\ is_initialized = TRUE /\ encoding = Cl100k
  /\ events = <<>> /\ spc = "idle" /\ summary_sentences = <<>> /\ sk = 0

\* line 103
YieldStarting ==
  /\ spc = "idle"
  /\ events' = Append(events, Event("starting", FALSE))
  /\ spc' = "starting"
  /\ UNCHANGED <<svcVars, reqVars, thrVars, normVars, pairVars, proxyVars,
                 summary_sentences, sk>>

\* line 108
YieldSearching ==
  /\ spc = "starting"
  /\ events' = Append(events, Event("searching", FALSE))
  /\ spc' = "search"
  /\ UNCHANGED <<svcVars, reqVars, thrVars, normVars, pairVars, proxyVars,
                 summary_sentences, sk>>

\* lines 110-120: the search gives results, gives none, or raises
SearchForSummary ==
  /\ spc = "search"
  /\ \E outcome \in {"results", "empty", "raises"} :
       IF outcome = "results" THEN spc' = "found" /\ UNCHANGED events
       ELSE IF outcome = "raises" THEN spc' = "except" /\ UNCHANGED events
       ELSE /\ events' = Append(events, Event("error", TRUE))
            /\ spc' = AfterNoResults
  /\ UNCHANGED <<svcVars, reqVars, thrVars, normVars, pairVars, proxyVars,
                 summary_sentences, sk>>

\* line 122
YieldFoundResults ==
  /\ spc = "found"
  /\ events' = Append(events, Event("found_results", FALSE))
  /\ spc' = "extract"
  /\ UNCHANGED <<svcVars, reqVars, thrVars, normVars, pairVars, proxyVars,
                 summary_sentences, sk>>

\* lines 125-137: the results are copied, which may raise, then 'generating'
YieldGenerating ==
  /\ spc = "extract"
  /\ \E raises \in BOOLEAN :
       IF raises THEN spc' = "except" /\ UNCHANGED events
       ELSE /\ events' = Append(events, Event("generating", FALSE))
            /\ spc' = "generate"
  /\ UNCHANGED <<svcVars, reqVars, thrVars, normVars, pairVars, proxyVars,
                 summary_sentences, sk>>

\* lines 139-153: the summary is generated, 'streaming_summary' is sent and the
\* summary is cut into pieces; the generation or re.split may raise
GenerateSummary ==
  /\ spc = "generate"
  /\ \E outcome \in {"ok", "kickoff_raises", "split_raises"} :
       IF outcome = "kickoff_raises"
       THEN spc' = "except" /\ UNCHANGED <<events, summary_sentences, sk>>
       ELSE /\ events' = Append(events, Event("streaming_summary", FALSE))
            /\ IF outcome = "split_raises"
               THEN spc' = "except" /\ UNCHANGED <<summary_sentences, sk>>
               ELSE /\ summary_sentences' \in Summaries
                    /\ sk' = 1
                    /\ spc' = "chunks"
  /\ UNCHANGED <<svcVars, reqVars, thrVars, normVars, pairVars, proxyVars>>

\* one turn of the loop of lines 155-165
YieldSummaryChunk ==
  /\ spc = "chunks"
  /\ sk <= Len(summary_sentences)
  /\ events' = IF summary_sentences[sk] # "blank"
               THEN Append(events, Event("summary_chunk", FALSE))
               ELSE events
  /\ sk' = sk + 1
  /\ UNCHANGED <<svcVars, reqVars, thrVars, normVars, pairVars, proxyVars,
                 spc, summary_sentences>>

\* lines 167-177: 'completed', unless building the event raises
YieldCompleted ==
  /\ spc = "chunks"
  /\ sk > Len(summary_sentences)
  /\ \E raises \in BOOLEAN :
       IF raises THEN spc' = "except" /\ UNCHANGED events
       ELSE /\ events' = Append(events, Event("completed", TRUE))
            /\ spc' = "closed"
  /\ UNCHANGED <<svcVars, reqVars, thrVars, normVars, pairVars, proxyVars,
                 summary_sentences, sk>>

\* lines 179-186
YieldError ==
  /\ spc = "except"
  /\ events' = Append(events, Event("error", TRUE))
  /\ spc' = "closed"
  /\ UNCHANGED <<svcVars, reqVars, thrVars, normVars, pairVars, proxyVars,
                 summary_sentences, sk>>

NextStream ==
  \/ YieldStarting
  \/ YieldSearching
  \/ SearchForSummary
  \/ YieldFoundResults
  \/ YieldGenerating
  \/ GenerateSummary
  \/ YieldSummaryChunk
  \/ YieldCompleted
  \/ YieldError

\* the response is read to its end, and every call the generator awaits
\* returns or raises
SpecStream == InitStream /\ [][NextStream]_vars /\ WF_vars(NextStream)

\* ------------------------------------------------------------------ claims

IsPrefix(p, t) == Len(p) <= Len(t) /\ SubSeq(t, 1, Len(p)) = p

\* the elements of the list a chunk was joined from, without its overlap seed
UnitParts(entry) == IF entry.seeded THEN Tail(entry.parts) ELSE entry.parts

\* a chunk made of one sentence or fragment that alone exceeds the limit
OversizedStandalone(i) ==
  /\ Len(UnitParts(chunk_log[i])) = 1
  /\ TokenCount(UnitParts(chunk_log[i])[1]) > chunker.chunk_limit

\* C1: with limit > 0, every chunk that is not an oversized-standalone chunk
\* has at most limit tokens, a chunk built as overlap seed + unit included.
C1_ChunksWithinLimit ==
  (chunker.made /\ chunker.chunk_limit > 0) =>
    \A i \in 1..Len(chunks) :
      OversizedStandalone(i) \/ TokenCount(chunks[i]) <= chunker.chunk_limit

\* C2: every chunk of the sequence split() builds is a non-empty string.
C2_NoEmptyChunk ==
  \A i \in 1..Len(chunks) : chunks[i] # <<>>

\* C3: with overlap = 0, a merge step that saves current_chunk leaves the new
\* current_chunk holding the new unit alone, with no seed element before it.
C3_NoSeedWhenOverlapZero ==
  [][(/\ chunker.made /\ chunker.overlap = 0
      /\ Len(chunk_log') = Len(chunk_log) + 1
      /\ chunk_log'[Len(chunk_log')].how = "merge")
     => Len(current_chunk') = 1]_vars

\* the last n tokens of a text, and the first n
TrailingTokens(t, n) == SubSeq(Encode(t), Len(Encode(t)) - n + 1, Len(Encode(t)))
LeadingTokens(t, n) == SubSeq(Encode(t), 1, n)

\* C4 as stated: with overlap > 0, every chunk after the first starts with the
\* last overlap tokens of the chunk before it, when that chunk has that many,
\* whichever path appended the two chunks.
C4_OverlapOnEveryPath ==
  (chunker.made /\ chunker.overlap > 0) =>
    \A i \in 2..Len(chunks) :
      TokenCount(chunks[i - 1]) >= chunker.overlap =>
        /\ TokenCount(chunks[i]) >= chunker.overlap
        /\ LeadingTokens(chunks[i], chunker.overlap)
             = TrailingTokens(chunks[i - 1], chunker.overlap)

\* C4 as amended: with overlap > 0, a chunk that follows a chunk saved by the
\* merge step starts with the text of the last overlap tokens of that chunk,
\* trimmed, when that chunk has that many tokens.
C4_OverlapAfterMergeFlush ==
  (chunker.made /\ chunker.overlap > 0) =>
    \A i \in 2..Len(chunks) :
      (/\ chunk_log[i - 1].how = "merge"
       /\ TokenCount(chunks[i - 1]) >= chunker.overlap)
      => IsPrefix(Strip(Concat(TrailingTokens(chunks[i - 1], chunker.overlap))),
                  chunks[i])

\* a three-chunk chain in which the overlap is shorter than the chunk before
C4_Witness ==
  /\ pc = "responded"
  /\ chunker.overlap > 0
  /\ \E i \in 2..Len(chunks) :
       /\ chunk_log[i - 1].how = "merge"
       /\ TokenCount(chunks[i - 1]) > chunker.overlap
       /\ chunk_log[i].how = "merge"

\* the words of every element of a list of texts, in order
RECURSIVE WordsOf(_)
WordsOf(parts) ==
  IF parts = <<>> THEN <<>>
  ELSE WhitespaceSplit(parts[1], <<>>) \o WordsOf(Tail(parts))

\* the units read off the chunks from left to right, overlap seeds left out
RECURSIVE ChunkedWords(_)
ChunkedWords(log) ==
  IF log = <<>> THEN <<>>
  ELSE WordsOf(UnitParts(log[1])) \o ChunkedWords(Tail(log))

\* the units of the sentences: a sentence, or the words of a long one
RECURSIVE SentenceUnits(_, _, _)
SentenceUnits(ss, limit, nltk) ==
  IF ss = <<>> THEN <<>>
  ELSE LET s == Strip(ss[1])
           ws == IF TokenCount(s) > limit + TenPercent(limit)
                 THEN (IF nltk THEN word_tokenize(s) ELSE WhitespaceSplit(s, <<>>))
                 ELSE <<>>
       IN  (IF Len(ws) > 1 THEN ws ELSE WhitespaceSplit(s, <<>>))
             \o SentenceUnits(Tail(ss), limit, nltk)

\* C5: the units of the returned chunks, overlap seeds left out, are the
\* non-empty units of the normalized input, each once and in its order.
C5_NoContentLoss ==
  pc \in {"returned", "responded"} =>
    /\ Len(chunk_log) = Len(chunks)
    /\ \A i \in 1..Len(chunks) : chunks[i] = Join(chunk_log[i].parts)
    /\ ChunkedWords(chunk_log) = SentenceUnits(sentences, chunker.chunk_limit, nltk_ok)

\* a run in which a chunk was saved by the merge step, one before an oversized
\* fragment, and the fragment as a chunk of its own
C5_Witness ==
  /\ pc = "responded"
  /\ \E i, j, k \in 1..Len(chunks) :
       /\ chunk_log[i].how = "merge"
       /\ chunk_log[j].how = "before_standalone"
       /\ chunk_log[k].how = "standalone"

\* C6: a text that is not empty after trimming, with limit > 0, gives a
\* non-empty sequence of chunks.
C6_NonEmptyResult ==
  (/\ pc = "responded"
   /\ Strip(text) # <<>>
   /\ chunk_token_limit > 0)
  => Len(response.chunks) >= 1

BlankOnly(t) == \A i \in 1..Len(t) : t[i] = Blank

\* C7: an empty or whitespace-only text ends in the validation error (HTTP 400)
\* with no chunker made, nothing segmented and no chunk list returned.
C7_EmptyTextRejected ==
  (BlankOnly(text) /\ pc # "request") =>
    /\ pc = "http400"
    /\ ~chunker.made
    /\ sentences = <<>> /\ si = 0
    /\ chunks = <<>>
    /\ response = NoResponse

\* a whitespace-only text rejected in a process whose service is uninitialized
C7_Witness ==
  /\ pc = "http400"
  /\ Len(text) >= 2
  /\ BlankOnly(text)
  /\ ~is_initialized

\* C8: with chunk_token_limit <= 0 no SmartChunker pass runs and no chunk list
\* is returned.
C8_NonPositiveLimitRejected ==
  chunk_token_limit <= 0 =>
    /\ pc \notin {"loop", "sub", "returned", "responded"}
    /\ response.status # "success"

\* C9: a call of num_tokens or SmartChunker() that finds the service
\* uninitialized fails with the RuntimeError, and a token count or a chunker is
\* only ever returned with the service initialized.
C9_UninitializedFails ==
  \A q \in CallerProcs :
    /\ (cpc[q] = "done" /\ ~seen[q]) => result[q] = "RuntimeError"
    /\ result[q] \in {"token_count", "chunker"} => (is_initialized /\ encoding # NoEncoding)

\* a call turned away while an initialization is between lines 93 and 95
C9_Witness ==
  /\ ~is_initialized
  /\ encoding # NoEncoding
  /\ \E q \in CallerProcs : cpc[q] = "done" /\ result[q] = "RuntimeError"

\* C10: under concurrent first calls the body of initialize_chunking_service
\* is entered at most once.
C10_BodyRunsOnce ==
  body_runs <= 1

\* some thread is inside the body of initialize_chunking_service (lines 81-95)
InitInProgress == \E p \in InitProcs : ipc[p] \in {"nltk", "encoding", "flag"}

\* C11: a caller of num_tokens or SmartChunker that makes its call while
\* initialize_chunking_service is in progress is not turned away with the
\* uninitialized error: it waits and then proceeds.
C11_CallerWaitsForInit ==
  [][\A q \in CallerProcs :
       (cpc[q] = "idle" /\ cpc'[q] # "idle" /\ InitInProgress)
         => result'[q] # "RuntimeError"]_vars

C13_AllOrNothing ==
  /\ token_error.raised # "none" =>
       /\ pc \in {"http400", "http500"}
       /\ response = NoResponse
  /\ response.status \in {"none", "success"}
  /\ response.status = "success" =>
       /\ token_error = NoTokenError
       /\ sentences = Segment(text, nltk_ok)
       /\ si = Len(sentences) + 1 /\ sj = 0 /\ subchunks = <<>>
       /\ response.chunks = chunks
       /\ response.total_chunks = Len(chunks)
       /\ Len(chunk_log) = Len(chunks)

\* num_tokens raised after split() had saved a chunk
C13_Witness ==
  /\ token_error.raised # "none"
  /\ token_error.chunk_saved
  /\ pc \in {"http400", "http500"}
  /\ response = NoResponse

\* no run of periods of t is followed by white space
NoSentenceBoundary(t) ==
  \A i \in 1..(Len(t) - 1) : ~(t[i] = Period /\ t[i + 1] = Blank)

WordPieces(t) == SelectSeq(t, LAMBDA c : c = Letter)

\* C14: a failure of the primary segmenters never stops split(). When
\* sent_tokenize fails the sentences are those of the regex fallback: cut at
\* periods followed by white space, trimmed, none empty, and the whole text as
\* the one sentence when it has no such boundary; when word_tokenize fails the
\* words of a long sentence are its white-space separated pieces; and the only
\* errors of a request are the validation error, the uninitialized service and
\* a failing token count.
C14_SegmentationFallsBack ==
  /\ (~nltk_ok /\ pc \in {"loop", "sub", "returned", "responded"}) =>
       LET c == clean_text_advanced(text)
       IN  /\ \A k \in 1..Len(sentences) :
                /\ sentences[k] # <<>>
                /\ Strip(sentences[k]) = sentences[k]
                /\ NoSentenceBoundary(sentences[k])
           /\ WordPieces(Concat(sentences)) = WordPieces(c)
           /\ (NoSentenceBoundary(c) /\ c # <<>>) => sentences = <<c>>
           /\ c = <<>> => sentences = <<>>
  /\ (~nltk_ok /\ pc = "sub") =>
       WordsOf(subchunks) = WhitespaceSplit(Strip(sentences[si]), <<>>)
  /\ pc = "http400" => (~ValidText(text) \/ token_error.raised = "ValueError")
  /\ pc = "http500" => (~is_initialized \/ token_error.raised = "Exception")

\* both primary segmenters failed: the text, which has a period but no
\* sentence boundary, is the one sentence, and as a long sentence it was cut
\* at its white space into two fragments or more
C14_Witness ==
  /\ ~nltk_ok
  /\ pc = "sub"
  /\ sentences = <<clean_text_advanced(text)>>
  /\ \E i \in 1..Len(sentences[1]) : sentences[1][i] = Period
  /\ Len(subchunks) >= 2

\* split() is about to read a sentence that is not empty, and the token count
\* does not fail
ReadsSentence ==
  /\ pc = "loop" /\ si <= Len(sentences) /\ Strip(sentences[si]) # <<>>
  /\ pc' \in {"loop", "sub"}

\* C15: with limit > 0 a sentence s is handed to long-sentence splitting
\* exactly when tokens(s) > limit + floor(limit / 10); at that threshold or
\* below it is merged as it is.
C15_LongSplitIffOverBuffer ==
  [][(ReadsSentence /\ chunker.chunk_limit > 0) =>
       LET s == Strip(sentences[si])
           limit == chunker.chunk_limit
       IN  /\ pc' = "sub" <=> TokenCount(s) > limit + (limit \div 10)
           /\ pc' = "sub" => (si' = si /\ sj' = 1 /\ Len(subchunks') >= 1)
           /\ pc' = "loop" => (si' = si + 1 /\ subchunks' = <<>>
                               /\ current_chunk'[Len(current_chunk')] = s)]_vars

\* a sentence one token over the threshold of a limit with a buffer is being
\* split
C15_Witness ==
  /\ pc = "sub" /\ sj = 1
  /\ chunker.chunk_limit >= 10
  /\ TokenCount(Strip(sentences[si]))
       = chunker.chunk_limit + (chunker.chunk_limit \div 10) + 1

ReadsFragment ==
  /\ pc = "sub" /\ sj <= Len(subchunks)
  /\ pc' \in {"sub", "loop"}

\* C17: a fragment of a long sentence with more than limit tokens is saved in
\* this order: current_chunk, when it is not empty, as one chunk, then the
\* fragment as a chunk equal to the fragment; current_chunk is empty after the
\* step, and no step changes a chunk that is already saved.
C17_OversizedFragmentStandsAlone ==
  [][/\ (ReadsFragment /\ Strip(subchunks[sj]) # <<>>
           /\ TokenCount(subchunks[sj]) > chunker.chunk_limit) =>
          /\ chunks' = (IF current_chunk # <<>>
                        THEN Append(chunks, Join(current_chunk)) ELSE chunks)
                       \o <<subchunks[sj]>>
          /\ current_chunk' = <<>>
          /\ ~seeded'
     /\ pc' \notin {"http400", "http500"} => IsPrefix(chunks, chunks')]_vars

\* an oversized fragment has just been saved after the chunk that
\* current_chunk held
C17_Witness ==
  /\ pc \in {"sub", "loop"}
  /\ current_chunk = <<>>
  /\ Len(chunk_log) >= 2
  /\ chunk_log[Len(chunk_log) - 1].how = "before_standalone"
  /\ chunk_log[Len(chunk_log)].how = "standalone"
  /\ chunker.chunk_limit > 0
  /\ TokenCount(chunks[Len(chunks)]) > chunker.chunk_limit
  /\ chunks[Len(chunks) - 1] = Join(chunk_log[Len(chunk_log) - 1].parts)

CeilDiv(a, b) == (a + b - 1) \div b

\* the three parts of C18 for the long sentence being read: no fragment has
\* more than limit tokens, there are at least ceil(tokens / limit) fragments,
\* and the words of the fragments in order are the words of the sentence
FragmentsWithinLimit ==
  \A j \in 1..Len(subchunks) : TokenCount(subchunks[j]) <= chunker.chunk_limit

EnoughFragments ==
  Len(subchunks) >= CeilDiv(TokenCount(Strip(sentences[si])), chunker.chunk_limit)

FragmentsKeepWords ==
  WordsOf(subchunks) = SentenceWords(Strip(sentences[si]), nltk_ok)

NoWordOverLimit ==
  \A w \in 1..Len(SentenceWords(Strip(sentences[si]), nltk_ok)) :
    TokenCount(SentenceWords(Strip(sentences[si]), nltk_ok)[w]) <= chunker.chunk_limit

C19_SmallInputIsWholeText ==
  (pc \in {"returned", "responded"} /\ sentences # <<>>
     /\ TokenCount(Join(sentences)) <= chunker.chunk_limit) =>
    /\ chunks = <<Join(sentences)>>
    /\ chunks = <<clean_text_advanced(text)>>

\* C19, amended: under the same condition the result for any overlap is
\* exactly one chunk, those sentences joined by single blanks; it is the
\* normalized whole text when the primary sentence segmenter was used.
C19_SmallInputOneChunk ==
  (pc \in {"returned", "responded"} /\ sentences # <<>>
     /\ TokenCount(Join(sentences)) <= chunker.chunk_limit) =>
    /\ chunks = <<Join(sentences)>>
    /\ nltk_ok => chunks = <<clean_text_advanced(text)>>
    /\ pc = "responded" => response.chunks = chunks

\* two sentences or more with exactly limit tokens together came back as one
\* chunk, with an overlap set
C19_Witness ==
  /\ pc = "responded"
  /\ Len(sentences) >= 2
  /\ TokenCount(Join(sentences)) = chunker.chunk_limit
  /\ chunker.overlap > 0
  /\ response.chunks = <<Join(sentences)>>

\* C20: normalization is idempotent: cleaning an already cleaned text returns
\* it unchanged, for texts with tags, escaped tags and doubly escaped tags too.
C20_CleanIdempotent ==
  clean_calls = 2 => clean_twice = clean_once

\* what a call returns when no other call runs beside it
RECURSIVE RunAlone(_, _, _)
RunAlone(call, buf, nltk) ==
  IF call.pc = "returned" THEN call.returned
  ELSE CHOOSE out \in {RunAlone(r.call, r.buf, nltk) :
                          r \in {SplitStep(call, buf, nltk)}} : TRUE

FragmentWords(j) == WhitespaceSplit(subchunks[j], <<>>)

\* C22: the fragments of a long sentence partition its words: read in order
\* they hold every word of the sentence once and in the original order, so no
\* two fragments share a word; no fragment is empty; and a fragment was closed
\* only where adding the next word would have brought it over the limit.
C22_FragmentsPartitionWords ==
  pc = "sub" =>
    /\ WordsOf(subchunks) = SentenceWords(Strip(sentences[si]), nltk_ok)
    /\ \A j \in 1..Len(subchunks) : FragmentWords(j) # <<>>
    /\ \A j \in 1..(Len(subchunks) - 1) :
         TokenCount(Join(FragmentWords(j) \o <<FragmentWords(j + 1)[1]>>))
           > chunker.chunk_limit

\* a long sentence of three words or more whose first fragment was closed
\* with two words in it
C22_Witness ==
  /\ pc = "sub" /\ Len(subchunks) >= 2
  /\ Len(SentenceWords(Strip(sentences[si]), nltk_ok)) >= 3
  /\ Len(FragmentWords(1)) >= 2

\* the sentence before the one split() reads next is a long one that word
\* segmentation leaves in one piece
UnsplittableBefore ==
  /\ pc = "loop" /\ si >= 2
  /\ Strip(sentences[si - 1]) # <<>>
  /\ IsLongSentence(Strip(sentences[si - 1]), chunker.chunk_limit)
  /\ Len(SentenceWords(Strip(sentences[si - 1]), nltk_ok)) <= 1

\* C23: a long sentence of at most one word has exactly one fragment, the
\* sentence itself; when that fragment has more than limit tokens, split()
\* saves it as a chunk of its own and leaves current_chunk empty.
C23_UnsplittableSentenceStandsAlone ==
  /\ (pc = "sub" /\ Len(SentenceWords(Strip(sentences[si]), nltk_ok)) <= 1) =>
       subchunks = <<Strip(sentences[si])>>
  /\ (UnsplittableBefore
        /\ TokenCount(Strip(sentences[si - 1])) > chunker.chunk_limit) =>
       /\ chunks # <<>> /\ chunks[Len(chunks)] = Strip(sentences[si - 1])
       /\ current_chunk = <<>>
       /\ chunk_log[Len(chunk_log)]
            = [how |-> "standalone", parts |-> <<Strip(sentences[si - 1])>>,
               seeded |-> FALSE]

\* a long one-word sentence was saved alone after a chunk of earlier sentences
C23_Witness ==
  /\ UnsplittableBefore /\ chunker.chunk_limit >= 1
  /\ Len(chunks) >= 2
  /\ chunks[Len(chunks)] = Strip(sentences[si - 1])

\* split() hands unit u to _add_to_chunks in this step
MergesUnit(u) ==
  \/ /\ ReadsSentence
     /\ ~IsLongSentence(Strip(sentences[si]), chunker.chunk_limit)
     /\ u = Strip(sentences[si])
  \/ /\ ReadsFragment
     /\ Strip(subchunks[sj]) # <<>>
     /\ TokenCount(subchunks[sj]) <= chunker.chunk_limit
     /\ u = Strip(subchunks[sj])

\* C24: a merge step without overflow, tokens(join(current + [u])) <= limit,
\* appends u as the last element of current_chunk, leaves the elements before
\* it as they were and leaves chunks unchanged.
C24_MergeWithoutOverflowAppends ==
  [][\A u \in {Strip(sentences[k]) : k \in 1..Len(sentences)}
            \cup {Strip(subchunks[k]) : k \in 1..Len(subchunks)} :
       (MergesUnit(u)
          /\ TokenCount(Join(current_chunk \o <<u>>)) <= chunker.chunk_limit) =>
         /\ current_chunk' = Append(current_chunk, u)
         /\ chunks' = chunks]_vars

\* current_chunk was grown by a merge without overflow while more sentences
\* are still to be read
C24_Witness ==
  /\ pc = "loop" /\ si <= Len(sentences)
  /\ ~seeded /\ Len(current_chunk) >= 2
  /\ chunks = <<>>

\* the request is answered: with chunks, with HTTP 400 or with HTTP 500
Answered == pc \in {"responded", "http400", "http500"}

\* a request that is not to be rejected, in a process that was initialized
Acceptable ==
  /\ ValidText(text) /\ chunk_token_limit > 0 /\ overlap_tokens >= 0
  /\ is_initialized

\* one step inside the loops of split(): the lists being read stay as they
\* are, and the step moves to the next sentence or to the next fragment
SinglePassStep ==
  (pc \in {"loop", "sub"} /\ pc' \in {"loop", "sub"}) =>
    /\ sentences' = sentences
    /\ \/ pc' = "loop" /\ si' = si + 1
       \/ pc' = "sub" /\ si' = si /\ sj' = (IF pc = "loop" THEN 1 ELSE sj + 1)
    /\ (pc = "sub" /\ pc' = "sub") => subchunks' = subchunks

\* C25: for every text, every limit > 0 and every overlap >= 0, also an
\* overlap >= limit, the request is not rejected and the call ends after one
\* pass: every step reads the next sentence or the next fragment of lists that
\* no step changes, the request is answered, and the answer is the sequence of
\* chunks unless a token count raised.
C25_AcceptedAndTerminates ==
  /\ <>Answered
  /\ [](Acceptable /\ Answered /\ token_error.raised = "none" =>
          pc = "responded" /\ response.status = "success"
            /\ response.chunks = chunks)
  /\ [][SinglePassStep]_vars

\* a request with overlap >= limit > 0 was answered with chunks made by
\* re-seeding
C25_Witness ==
  /\ pc = "responded" /\ chunk_token_limit > 0
  /\ overlap_tokens >= chunk_token_limit
  /\ Len(response.chunks) >= 2
  /\ \E i \in 1..Len(chunk_log) : chunk_log[i].seeded

\* C26: in every state, under every interleaving of initialize_chunking_service
\* calls and readers, is_initialized = TRUE implies that encoding is set; once
\* is_initialized is TRUE it stays TRUE, encoding is never unset again, and a
\* call of initialize_chunking_service that starts then returns at its check
\* without entering the body.
C26_InitializedKeepsEncoding ==
  /\ [](is_initialized => encoding # NoEncoding)
  /\ [][is_initialized =>
          /\ is_initialized'
          /\ encoding' # NoEncoding
          /\ \A p \in InitProcs :
               (ipc[p] = "idle" /\ ipc'[p] # "idle") =>
                 (ipc'[p] = "returned" /\ encoding' = encoding
                    /\ body_runs' = body_runs)]_vars

\* the body ran once, a second call returned at its check, and a reader then
\* counted tokens
C26_Witness ==
  /\ is_initialized /\ body_runs = 1
  /\ \A p \in InitProcs : ipc[p] = "returned"
  /\ \E q \in CallerProcs : seen[q] /\ result[q] = "token_count"

\* the first n words of fragment j, joined as the running group was
GroupPrefix(j, n) == Join(SubSeq(FragmentWords(j), 1, n))

\* C27: while a long sentence is split, a running group of two words or more
\* never has more than limit tokens; so every fragment with more than limit
\* tokens is a single word, and only single words are saved by the
\* oversized-standalone path of split().
C27_OnlySingleWordsOversized ==
  /\ pc = "sub" =>
       \A j \in 1..Len(subchunks) :
         /\ \A n \in 2..Len(FragmentWords(j)) :
              TokenCount(GroupPrefix(j, n)) <= chunker.chunk_limit
         /\ TokenCount(subchunks[j]) > chunker.chunk_limit =>
              Len(FragmentWords(j)) = 1
  /\ \A i \in 1..Len(chunk_log) :
       chunk_log[i].how = "standalone" =>
         Len(WordsOf(chunk_log[i].parts)) = 1

\* a long sentence gave a fragment of two words and a single word over the
\* limit
C27_Witness ==
  /\ pc = "sub"
  /\ \E j \in 1..Len(subchunks) : Len(FragmentWords(j)) >= 2
  /\ \E j \in 1..Len(subchunks) : TokenCount(subchunks[j]) > chunker.chunk_limit

\* POST /chunk was answered by the branch for an initialized search service
AnsweredInitialized ==
  hpc = "done" /\ hresp.message # "Elasticsearch service not available"

Wrote == \E k \in 1..Len(es_calls) : es_calls[k] = "bulk_update"

\* C28: POST /chunk chunks the document again and calls bulk_update only if the
\* search service is initialized, the document exists, force_update is true
\* and the input field is not empty; with force_update false and existing
\* chunks the answer is 'ignored'/'noop' and nothing is written; with
\* force_update false and no chunks the request fails with HTTP 400 and nothing
\* is written; elasticsearch_indexed with action 'updated' only after
\* bulk_update.
C28_RechunkOnlyWhenForced ==
  /\ (rechunked \/ Wrote) =>
       (AnsweredInitialized /\ doc.exists /\ force_update /\ doc.input # "none")
  /\ (AnsweredInitialized /\ doc.exists /\ ~force_update /\ doc.chunks) =>
       /\ hresp.status = "ignored" /\ hresp.action_performed = "noop"
       /\ ~Wrote
  /\ (AnsweredInitialized /\ doc.exists /\ ~force_update /\ ~doc.chunks) =>
       hresp.http = 400 /\ ~Wrote
  /\ (hresp.elasticsearch_indexed /\ hresp.action_performed = "updated") => Wrote

\* C29: reading is_initialized on the lazy Elasticsearch or Key Vault proxy
\* never constructs the service behind it and leaves the proxy as it was; it
\* gives false as long as no data operation of that proxy was invoked. So when
\* only is_initialized was read before the request, POST /chunk answers with
\* status 'error', 'Elasticsearch service not available', and makes no lookup,
\* chunks nothing and writes nothing.
C29_ReadingStatusConstructsNothing ==
  /\ [](/\ ~kv_used => (kv_service = "None" /\ ~ReadIsInitialized(kv_service).value)
        /\ ~es_used => (es_service = "None" /\ ~ReadIsInitialized(es_service).value)
        /\ (hpc = "done" /\ ~es_used) =>
             /\ hresp = ApiResponse("error", "Elasticsearch service not available",
                                    FALSE, "none")
             /\ es_calls = <<>> /\ ~rechunked)
  /\ [][(logged' # logged \/ hpc' = "initialized" \/ (hpc = "idle" /\ hpc' = "done")) =>
          (kv_service' = kv_service /\ es_service' = es_service)]_vars

\* the status was read at startup, no data operation followed, and POST /chunk
\* was answered for a stored document with force_update
C29_Witness ==
  /\ logged = {[azure_key_vault |-> FALSE, elasticsearch |-> FALSE]}
  /\ ~kv_used /\ ~es_used
  /\ hpc = "done" /\ doc.exists /\ doc.input = "text" /\ force_update
  /\ hresp.status = "error"

FinalEvents == {i \in 1..Len(events) : events[i].is_final}

\* C30: every run of the POST /summary stream sends 'starting' first and ends
\* with exactly one event with is_final = true, 'completed' or 'error'; no
\* event follows the final one, and every 'summary_chunk' comes after
\* 'streaming_summary' and before 'completed'.
C30_StreamEndsWithOneFinalEvent ==
  /\ [](events # <<>> => events[1].status = "starting")
  /\ [](\A i \in FinalEvents :
          i = Len(events) /\ events[i].status \in {"completed", "error"})
  /\ [](spc = "closed" => Cardinality(FinalEvents) = 1)
  /\ [](\A i \in 1..Len(events) :
          events[i].status = "summary_chunk" =>
            /\ \E j \in 1..(i - 1) : events[j].status = "streaming_summary"
            /\ \A j \in 1..i : events[j].status # "completed")
  /\ [][events # <<>> /\ events[Len(events)].is_final => events' = events]_vars
  /\ <>(spc = "closed")

\* a stream that sent two summary chunks and then 'completed'
C30_Witness ==
  /\ spc = "closed"
  /\ events[Len(events)].status = "completed"
  /\ Cardinality({i \in 1..Len(events) : events[i].status = "summary_chunk"}) >= 2

=============================================================================
